---- MODULE Spec2Model ----
(***************************************************************************)
(* Radiation Monitoring System: threshold resolution, violation            *)
(* evaluation, alert records and their acknowledgment, as implemented in   *)
(* app.js (Express handlers over Firestore collections).                   *)
(*                                                                         *)
(* Firestore documents are functions from field names to values; a field   *)
(* a document does not have is outside its DOMAIN.  set(..., {merge:true}) *)
(* is Merge.  Collections iterate in ascending document id.                *)
(***************************************************************************)
EXTENDS Integers, Sequences, FiniteSets, TLC

VARIABLES thresholds, readings, radiationLevels, alertHistory, users,
          notification_settings, now, last,
          connected, inbox,
          localStorage, offlineData, syncAt, online, saved, accepted

\* the server: its collections, its clock and the last handled request
serverVars == <<thresholds, readings, radiationLevels, alertHistory, users,
                notification_settings, now, last>>
\* the sockets connected to the server and what each has received
observerVars == <<connected, inbox>>
\* one browser page: its stored queue, its in-memory queue, the position of
\* a running sync, navigator.onLine; and, for the readings the page saved,
\* how many there are and which of them the server accepted
clientVars == <<localStorage, offlineData, syncAt, online, saved, accepted>>

vars == <<thresholds, readings, radiationLevels, alertHistory, users,
          notification_settings, now, last, connected, inbox,
          localStorage, offlineData, syncAt, online, saved, accepted>>

(***************************************************************************)
(* Bounds of the model.                                                    *)
(***************************************************************************)
\* finite channel values and limits range over 0..MaxVal
MaxVal == 2
\* number of requests handled in one behaviour (the clock stops there)
MaxTime == 3
\* number of readings one page saves offline in one behaviour
MaxSaved == 3

(***************************************************************************)
(* JavaScript values.  Numbers are integers; the non-finite numbers and    *)
(* the undefined value are encoded outside 0..MaxVal.                      *)
(***************************************************************************)
undefined == -2
NaN == -1
POSITIVE_INFINITY == 1000
NEGATIVE_INFINITY == -1000
\* an absent string (undefined where a string is expected)
Absent == "<undefined>"

\* isNaN(x) for a number x
isNaN(x) == x = NaN

\* parseFloat(v): undefined and non-numeric text give NaN, numbers and
\* numeric text (including "Infinity") give the number
parseFloat(v) == IF v = undefined THEN NaN ELSE v

\* a ?? b on numbers
Nullish(a, b) == IF a = undefined THEN b ELSE a

\* x || d on numbers: 0 and NaN are falsy
OrElse(x, d) == IF x = 0 \/ x = NaN THEN d ELSE x

\* a >= b in place of a > b
GtOrEqual(a, b) == a # NaN /\ b # NaN /\ a >= b

\* a > b on numbers: false when either side is NaN
Gt(a, b) == a # NaN /\ b # NaN /\ a > b

\* a + b on the numbers that occur as limits (never NaN, never -Infinity)
Add(a, b) == IF a = POSITIVE_INFINITY \/ b = POSITIVE_INFINITY
             THEN POSITIVE_INFINITY ELSE a + b

\* !s for a string s
Falsy(s) == s = "" \/ s = Absent

\* d[k] for a numeric field
Num(d, k) == IF k \in DOMAIN d THEN d[k] ELSE undefined

\* d[k] for a string field
Str(d, k) == IF k \in DOMAIN d THEN d[k] ELSE Absent

\* Firestore set(data, {merge: true}) on an existing or missing document
Merge(old, new) ==
    [k \in DOMAIN old \cup DOMAIN new |-> IF k \in DOMAIN new THEN new[k] ELSE old[k]]

\* the document that does not exist
NoData == [k \in {} |-> 0]

(***************************************************************************)
(* Threshold store                                                         *)
(***************************************************************************)
\* document ids of radiationThresholds, in the collection's iteration order
ThresholdOrder == <<"t1", "t2", "t3">>
ThresholdIds == {ThresholdOrder[i] : i \in DOMAIN ThresholdOrder}
NoDoc == "none"

\* filterActive testing that a flag is present instead of true
filterActivePresent(d) == "isActive" \in DOMAIN d \/ "is_active" \in DOMAIN d

\* checkThresholdViolations.filterActive
filterActive(d) ==
    \/ ("isActive" \in DOMAIN d /\ d["isActive"] = TRUE)
    \/ ("is_active" \in DOMAIN d /\ d["is_active"] = TRUE)

\* thresholdsRef.where(block).where(plant).where(area).get(), then
\* snap.docs.filter(filterActive): ids in iteration order
QueryArea(store, block, plant, area) ==
    SelectSeq(ThresholdOrder,
              LAMBDA id : /\ Str(store[id], "block") = block
                          /\ Str(store[id], "plant") = plant
                          /\ Str(store[id], "area") = area
                          /\ filterActive(store[id]))

\* thresholdsRef.where(block).where(plant).get(), then filterActive
QueryPlant(store, block, plant) ==
    SelectSeq(ThresholdOrder,
              LAMBDA id : /\ Str(store[id], "block") = block
                          /\ Str(store[id], "plant") = plant
                          /\ filterActive(store[id]))

\* the limits the fallback sorts by: 0, NaN and a missing field count as
\* +Infinity
FallbackNear(d) ==
    OrElse(parseFloat(Nullish(Num(d, "near_threshold"),
                      Nullish(Num(d, "nearThreshold"),
                      Nullish(Num(d, "near"), POSITIVE_INFINITY)))),
           POSITIVE_INFINITY)

FallbackOnem(d) ==
    OrElse(parseFloat(Nullish(Num(d, "onem_threshold"),
                      Nullish(Num(d, "onemThreshold"),
                      Nullish(Num(d, "onem"), POSITIVE_INFINITY)))),
           POSITIVE_INFINITY)

FallbackSum(d) == Add(FallbackNear(d), FallbackOnem(d))

\* the comparator (a.near + a.onem) - (b.near + b.onem): Infinity - Infinity
\* is NaN, which sort treats as 0
SortCompare(sa, sb) ==
    IF sa = POSITIVE_INFINITY /\ sb = POSITIVE_INFINITY THEN 0 ELSE sa - sb

\* insert id into a sorted sequence after every element not greater than it
RECURSIVE InsertSorted(_, _, _)
InsertSorted(store, sorted, id) ==
    IF sorted = <<>> THEN <<id>>
    ELSE IF SortCompare(FallbackSum(store[Head(sorted)]), FallbackSum(store[id])) <= 0
         THEN <<Head(sorted)>> \o InsertSorted(store, Tail(sorted), id)
         ELSE <<id>> \o sorted

\* mapped.sort(...): Array.prototype.sort is stable
RECURSIVE SortBySum(_, _)
SortBySum(store, ids) ==
    IF ids = <<>> THEN <<>>
    ELSE InsertSorted(store, SortBySum(store, SubSeq(ids, 1, Len(ids) - 1)), ids[Len(ids)])

\* tier 4: the strictest active config of the plant
FallbackCandidates(store, block, plant) ==
    LET plantDocs == QueryPlant(store, block, plant)
    IN  IF Len(plantDocs) > 0 THEN <<Head(SortBySum(store, plantDocs))>> ELSE <<>>

\* Candidates with the wildcard tier tried before the exact tier
CandidatesWildcardFirst(store, block, plant, area, areaSpec) ==
    LET c3 == QueryArea(store, block, plant, "ANY")
        c1 == IF Len(c3) = 0 THEN QueryArea(store, block, plant, area) ELSE c3
        c2 == IF Len(c1) = 0 /\ ~Falsy(areaSpec)
              THEN QueryArea(store, block, plant, areaSpec) ELSE c1
        c4 == IF Len(c2) = 0 THEN FallbackCandidates(store, block, plant) ELSE c2
    IN  c4

\* Candidates with the areaSpec tier tried after the wildcard tier
CandidatesAreaSpecLate(store, block, plant, area, areaSpec) ==
    LET c1 == QueryArea(store, block, plant, area)
        c3 == IF Len(c1) = 0 THEN QueryArea(store, block, plant, "ANY") ELSE c1
        c2 == IF Len(c3) = 0 /\ ~Falsy(areaSpec)
              THEN QueryArea(store, block, plant, areaSpec) ELSE c3
        c4 == IF Len(c2) = 0 THEN FallbackCandidates(store, block, plant) ELSE c2
    IN  c4

\* the four tiers of checkThresholdViolations; the result is `candidates`
Candidates(store, block, plant, area, areaSpec) ==
    LET c1 == QueryArea(store, block, plant, area)
        c2 == IF Len(c1) = 0 /\ ~Falsy(areaSpec)
              THEN QueryArea(store, block, plant, areaSpec) ELSE c1
        c3 == IF Len(c2) = 0 THEN QueryArea(store, block, plant, "ANY") ELSE c2
        c4 == IF Len(c3) = 0 THEN FallbackCandidates(store, block, plant) ELSE c3
    IN  c4

\* candidates[0], or NoDoc when no tier found an active config
ResolveThreshold(store, block, plant, area, areaSpec) ==
    LET c == Candidates(store, block, plant, area, areaSpec)
    IN  IF Len(c) = 0 THEN NoDoc ELSE Head(c)

\* threshold normalization of the chosen document
nearThresholdVal(d) ==
    OrElse(parseFloat(Nullish(Num(d, "near_threshold"),
                      Nullish(Num(d, "nearThreshold"),
                      Nullish(Num(d, "near"), 0)))), 0)

onemThresholdVal(d) ==
    OrElse(parseFloat(Nullish(Num(d, "onem_threshold"),
                      Nullish(Num(d, "onemThreshold"),
                      Nullish(Num(d, "onem"), 0)))), 0)

thresholdLevel(d) ==
    IF Str(d, "alert_level") # Absent THEN d["alert_level"]
    ELSE IF Str(d, "alertLevel") # Absent THEN d["alertLevel"]
    ELSE "MEDIUM"

(***************************************************************************)
(* Violation evaluation and alert creation                                 *)
(***************************************************************************)
\* violations with the one-meter check made before the near check
violationsOnemFirst(nearReading, onemReading, d) ==
    (IF Gt(onemReading, onemThresholdVal(d))
     THEN <<[channel |-> "onem", reading |-> onemReading,
             threshold |-> onemThresholdVal(d)]>>
     ELSE <<>>)
    \o
    (IF Gt(nearReading, nearThresholdVal(d))
     THEN <<[channel |-> "near", reading |-> nearReading,
             threshold |-> nearThresholdVal(d)]>>
     ELSE <<>>)

\* the `violations` list: one entry per exceeded channel, near first
violations(nearReading, onemReading, d) ==
    (IF Gt(nearReading, nearThresholdVal(d))
     THEN <<[channel |-> "near", reading |-> nearReading,
             threshold |-> nearThresholdVal(d)]>>
     ELSE <<>>)
    \o
    (IF Gt(onemReading, onemThresholdVal(d))
     THEN <<[channel |-> "onem", reading |-> onemReading,
             threshold |-> onemThresholdVal(d)]>>
     ELSE <<>>)

\* alertLevel raised by the near check only
alertLevelNearOnly(nearReading, onemReading, d) ==
    IF Gt(nearReading, nearThresholdVal(d)) THEN thresholdLevel(d) ELSE "LOW"

\* `alertLevel` after both channel checks
alertLevelOf(nearReading, onemReading, d) ==
    IF Len(violations(nearReading, onemReading, d)) > 0
    THEN thresholdLevel(d) ELSE "LOW"

\* the document checkThresholdViolations adds to alertHistory
ThresholdAlert(block, plant, area, nearReading, onemReading, emp, d, t) ==
    [alert_type |-> "THRESHOLD_EXCEEDED",
     alert_level |-> alertLevelOf(nearReading, onemReading, d),
     block |-> block, plant |-> plant, area |-> area, emp |-> emp,
     near_reading |-> nearReading, onem_reading |-> onemReading,
     threshold_near |-> nearThresholdVal(d),
     threshold_onem |-> onemThresholdVal(d),
     message |-> [text |-> "RADIATION ALERT",
                  violations |-> violations(nearReading, onemReading, d)],
     acknowledged |-> FALSE,
     created_at |-> t]

(***************************************************************************)
(* Subscribers and dispatch                                                *)
(***************************************************************************)
\* document ids of users, in the collection's iteration order; a user's
\* document id is its empid
UserOrder == <<"u1", "u2", "u3">>
UserIds == {UserOrder[i] : i \in DOMAIN UserOrder}

\* d[k] === true
Flag(d, k) == k \in DOMAIN d /\ d[k] = TRUE

\* db.collection('users').where('isActive', '==', true).get()
usersSnapshot == SelectSeq(UserOrder, LAMBDA id : Flag(users[id], "isActive"))

\* db.collection('users').where('isAdmin', '==', true).limit(1).get()
adminSnapshot == SelectSeq(UserOrder, LAMBDA id : Flag(users[id], "isAdmin"))

\* adminSnapshot.docs[0], NoDoc when there is none
adminDoc == IF Len(adminSnapshot) > 0 THEN adminSnapshot[1] ELSE NoDoc

\* the settings sendAlertNotifications assumes for a subscriber that has no
\* notification_settings document
DefaultSettings ==
    [alertLevels |-> {"MEDIUM", "HIGH", "CRITICAL"}, emailNotifications |-> TRUE,
     smsNotifications |-> FALSE]

\* settingsDoc.exists ? settingsDoc.data() : {...}
settingsOf(empid) ==
    IF empid \in DOMAIN notification_settings THEN notification_settings[empid]
    ELSE DefaultSettings

\* what goes wrong during one dispatch, `down`: nothing ("none"); the
\* transports reject every message to one subscriber (the subscriber's id);
\* the transports never answer for one subscriber (HangOf); the read of one
\* subscriber's notification_settings document fails (UnreadableOf)
HangOf == [u1 |-> "hang-u1", u2 |-> "hang-u2", u3 |-> "hang-u3"]
UnreadableOf == [u1 |-> "settings-u1", u2 |-> "settings-u2", u3 |-> "settings-u3"]

\* how sendMail / messages.create ends for a message to subscriber id
Transport(down, id) ==
    IF down = id THEN "rejected" ELSE IF down = HangOf[id] THEN "hangs" ELSE "ok"

\* db.collection('notification_settings').doc(empid).get() throws: the read
\* fails, or empid is undefined and doc() rejects the path
SettingsReadThrows(down, id) ==
    down = UnreadableOf[id] \/ Falsy(Str(users[id], "empid"))

\* the throw of a settings read outside any inner try
SettingsThrow(id) ==
    [channel |-> "settings", empid |-> id, to |-> "", delivered |-> FALSE,
     threw |-> TRUE, returned |-> TRUE]

\* sendEmailAlert letting the transport's error through
sendEmailAlertUncaught(id, to, outcome) ==
    [channel |-> "email", empid |-> id, to |-> to, delivered |-> outcome = "ok",
     threw |-> outcome = "rejected", returned |-> outcome # "hangs"]

\* sendEmailAlert: one awaited sendMail, its error caught and logged; the
\* call returns when sendMail settles
sendEmailAlert(id, to, outcome) ==
    [channel |-> "email", empid |-> id, to |-> to, delivered |-> outcome = "ok",
     threw |-> FALSE, returned |-> outcome # "hangs"]

\* sendSMSAlert: one awaited messages.create, its error caught and logged
sendSMSAlert(id, to, outcome) ==
    [channel |-> "sms", empid |-> id, to |-> to, delivered |-> outcome = "ok",
     threw |-> FALSE, returned |-> outcome # "hangs"]

\* the forceAll pass sending the email only where the stored settings
\* enable it
ForcedSendsBySettings(id, down) ==
    LET user == users[id]
        settings == settingsOf(user.empid)
    IN  (IF ~Falsy(Str(user, "email")) /\ settings.emailNotifications
         THEN <<sendEmailAlert(id, user.email, Transport(down, id))>> ELSE <<>>)
        \o
        (IF ~Falsy(Str(user, "phone")) /\ Flag(user, "isAdmin")
            /\ settings.smsNotifications
         THEN <<sendSMSAlert(id, user.phone, Transport(down, id))>> ELSE <<>>)

\* one pass of the loop under forceAll: the email goes to every user that
\* has an address; the SMS only to an administrator whose stored settings
\* enable it (a throw of the settings read is caught inside the pass and
\* leaves the SMS out)
ForcedSends(id, down) ==
    LET user == users[id]
        settings == IF SettingsReadThrows(down, id)
                    THEN [smsNotifications |-> FALSE]
                    ELSE IF user.empid \in DOMAIN notification_settings
                    THEN notification_settings[user.empid]
                    ELSE [smsNotifications |-> FALSE]
    IN  (IF ~Falsy(Str(user, "email"))
         THEN <<sendEmailAlert(id, user.email, Transport(down, id))>> ELSE <<>>)
        \o
        (IF ~Falsy(Str(user, "phone")) /\ Flag(user, "isAdmin")
            /\ settings.smsNotifications
         THEN <<sendSMSAlert(id, user.phone, Transport(down, id))>> ELSE <<>>)

\* the settings pass sending the SMS only after it sent the email
SettingSendsSmsAfterEmail(id, alertLevel, down) ==
    LET user == users[id]
        isAdmin == Flag(user, "isAdmin")
        settings == settingsOf(user.empid)
    IN  IF isAdmin \/ alertLevel \in settings.alertLevels
        THEN IF (isAdmin \/ settings.emailNotifications) /\ ~Falsy(Str(user, "email"))
             THEN <<sendEmailAlert(id, user.email, Transport(down, id))>>
                  \o (IF (isAdmin \/ settings.smsNotifications)
                         /\ ~Falsy(Str(user, "phone"))
                      THEN <<sendSMSAlert(id, user.phone, Transport(down, id))>>
                      ELSE <<>>)
             ELSE <<>>
        ELSE <<>>

\* one pass of the loop without forceAll
SettingSends(id, alertLevel, down) ==
    LET user == users[id]
        isAdmin == Flag(user, "isAdmin")
        settings == settingsOf(user.empid)
    IN  IF SettingsReadThrows(down, id) THEN <<SettingsThrow(id)>>
        ELSE IF isAdmin \/ alertLevel \in settings.alertLevels
        THEN (IF (isAdmin \/ settings.emailNotifications) /\ ~Falsy(Str(user, "email"))
              THEN <<sendEmailAlert(id, user.email, Transport(down, id))>> ELSE <<>>)
             \o
             (IF (isAdmin \/ settings.smsNotifications) /\ ~Falsy(Str(user, "phone"))
              THEN <<sendSMSAlert(id, user.phone, Transport(down, id))>> ELSE <<>>)
        ELSE <<>>

\* the sends of the passes over `ids`, in order
RECURSIVE LoopSends(_, _, _, _)
LoopSends(ids, alertLevel, forceAll, down) ==
    IF ids = <<>> THEN <<>>
    ELSE (IF forceAll THEN ForcedSends(Head(ids), down)
          ELSE SettingSends(Head(ids), alertLevel, down))
         \o LoopSends(Tail(ids), alertLevel, forceAll, down)

\* the sends that run: a throw ends the loop, and so does an awaited send
\* that never returns
Executed(sends) ==
    LET thrown == {i \in DOMAIN sends : sends[i].threw \/ ~sends[i].returned}
    IN  IF thrown = {} THEN sends
        ELSE SubSeq(sends, 1, CHOOSE i \in thrown : \A j \in thrown : i <= j)

\* a || b on strings
OrStr(a, b) == IF Falsy(a) THEN b ELSE a

\* the administrator's email sent only when the loop sent no email at all
AdminSendsWhenNoneSent(sentEmpIds, down) ==
    IF adminDoc = NoDoc THEN <<>>
    ELSE LET admin == users[adminDoc]
         IN  IF sentEmpIds = {} /\ ~Falsy(Str(admin, "email"))
             THEN <<sendEmailAlert(adminDoc, admin.email, Transport(down, adminDoc))>>
             ELSE <<>>

\* the administrator's email after the loop: sent unless the loop already
\* sent an email to the administrator's empid
AdminSends(sentEmpIds, down) ==
    IF adminDoc = NoDoc THEN <<>>
    ELSE LET admin == users[adminDoc]
             adminEmpId == OrStr(Str(admin, "empid"), OrStr(Str(admin, "uid"), "admin"))
         IN  IF adminEmpId \notin sentEmpIds /\ ~Falsy(Str(admin, "email"))
             THEN <<sendEmailAlert(adminDoc, admin.email, Transport(down, adminDoc))>>
             ELSE <<>>

\* sendAlertNotifications(alertLevel, message, block, plant, area, forceAll):
\* the arguments of the call, the sends it made in order, its count of email
\* recipients, whether it threw to its caller and whether it returned at all
sendAlertNotifications(alertLevel, message, block, plant, area, forceAll, down) ==
    LET loop == Executed(LoopSends(usersSnapshot, alertLevel, forceAll, down))
        aborted == \E i \in DOMAIN loop : loop[i].threw \/ ~loop[i].returned
        emailed == {i \in DOMAIN loop : /\ loop[i].channel = "email"
                                        /\ ~loop[i].threw /\ loop[i].returned}
        sentEmpIds == {Str(users[loop[i].empid], "empid") : i \in emailed}
        after == IF aborted THEN <<>> ELSE AdminSends(sentEmpIds, down)
        counted == {i \in DOMAIN after : ~after[i].threw /\ after[i].returned}
    IN  [alertLevel |-> alertLevel, message |-> message, block |-> block,
         plant |-> plant, area |-> area, forceAll |-> forceAll,
         attempts |-> loop \o after,
         totalRecipients |-> Cardinality(emailed) + Cardinality(counted),
         threw |-> FALSE,
         completed |-> \A i \in DOMAIN (loop \o after) : (loop \o after)[i].returned]

\* the subscriber whose messages the transports reject during a request
Down(fault) == IF fault \in UserIds THEN fault ELSE "none"

\* the alert steps with alertHistory.add() not awaited: the write settles
\* after the dispatch
AlertStepsAddUnawaited(dispatch) ==
    <<"recipients">> \o [i \in DOMAIN dispatch.attempts |-> "send"]
    \o <<"persist", "emitAlert">>

\* the steps of raising one alert, in the order the statements run: the
\* awaited alertHistory.add(), the awaited sendAlertNotifications (its
\* users query, then its sends), then io.emit('alert')
AlertSteps(dispatch) ==
    <<"persist", "recipients">> \o [i \in DOMAIN dispatch.attempts |-> "send"]
    \o <<"emitAlert">>

\* io.emit('alert', {...})
AlertEvent(type, level, message, block, plant, area, t) ==
    [event |-> "alert", type |-> type, level |-> level, message |-> message,
     location |-> <<block, plant, area>>, timestamp |-> t]

\* the id Firestore's add() gives a new alertHistory document: ids are
\* numbered in creation order; id 0 is an id add() never generated
NoAlertId == 0
NextAlertId(hist) == Cardinality(DOMAIN hist \ {NoAlertId}) + 1

\* db.collection('alertHistory').add(doc)
AddAlert(hist, doc) ==
    [i \in DOMAIN hist \cup {NextAlertId(hist)} |->
        IF i \in DOMAIN hist THEN hist[i] ELSE doc]

\* what one run of checkThresholdViolations does: the document it chose, the
\* violations it found, the alert history it leaves, the dispatch it asked
\* for and the events it emitted.  A throw anywhere is caught and logged.
checkThresholdViolations(store, hist, block, plant, area, nearReading, onemReading, emp, areaSpec, fault, t) ==
    LET doc  == ResolveThreshold(store, block, plant, area, areaSpec)
        none == [call |-> [block |-> block, plant |-> plant, area |-> area,
                           near |-> nearReading, onem |-> onemReading,
                           emp |-> emp, areaSpec |-> areaSpec],
                 thresholdDoc |-> NoDoc, violations |-> <<>>, alertId |-> NoAlertId,
                 hist |-> hist, notifications |-> <<>>, emitted |-> <<>>,
                 steps |-> <<>>]
    IN  IF fault = "thresholdQuery" THEN none
        ELSE IF doc = NoDoc THEN none
        ELSE LET d  == store[doc]
                 v  == violations(nearReading, onemReading, d)
                 lv == alertLevelOf(nearReading, onemReading, d)
                 a  == ThresholdAlert(block, plant, area, nearReading,
                                      onemReading, emp, d, t)
                 found == [none EXCEPT !.thresholdDoc = doc, !.violations = v,
                                       !.steps = <<"evaluate">>]
                 dispatch == sendAlertNotifications(lv, a.message, block, plant,
                                                    area, FALSE, Down(fault))
             IN  IF Len(v) = 0 THEN found
                 ELSE IF fault = "alertWrite" THEN found
                 ELSE [found EXCEPT
                         !.alertId = NextAlertId(hist),
                         !.hist = AddAlert(hist, a),
                         !.notifications = <<dispatch>>,
                         !.emitted =
                             <<AlertEvent("threshold_exceeded", lv, a.message,
                                          block, plant, area, t)>>,
                         !.steps = @ \o AlertSteps(dispatch)]

\* the sockets that may connect
ObserverIds == {"s1", "s2"}

\* io.emit(event, payload): every socket connected at the call receives
\* the event once; the server keeps no copy
ioEmit(events) ==
    [o \in ObserverIds |-> IF o \in connected THEN inbox[o] \o events ELSE inbox[o]]

\* what a handler leaves of the sockets and the page: its events broadcast,
\* the connections and the page untouched
Handled ==
    /\ inbox' = ioEmit(last'.emitted)
    /\ UNCHANGED connected
    /\ UNCHANGED clientVars

(***************************************************************************)
(* Handlers                                                                *)
(***************************************************************************)
\* the JSON body of a handler's response: POST /insert answers success,
\* message and the new reading's id; the other answers carry success and a
\* message
ResponseBody(op, status, id) ==
    IF status = 0 THEN NoData
    ELSE IF op = "insert" /\ status = 200
    THEN [success |-> TRUE, message |-> "Data inserted successfully", id |-> id]
    ELSE [success |-> status = 200, message |-> op]

\* what the last handled request did: the request, the HTTP status (0 when
\* the operation is no HTTP request), the id in the response body, and, if it
\* ran checkThresholdViolations, the arguments and the effects of that run
Report(op, req, fault, status, id, out) ==
    [op |-> op, req |-> req, fault |-> fault, status |-> status, id |-> id,
     body |-> ResponseBody(op, status, id),
     call |-> out.call, thresholdDoc |-> out.thresholdDoc, violations |-> out.violations,
     alertId |-> out.alertId, notifications |-> out.notifications,
     emitted |-> out.emitted,
     steps |-> IF status = 0 THEN out.steps ELSE out.steps \o <<"respond">>]

NoOutcome ==
    [call |-> NoData, thresholdDoc |-> NoDoc, violations |-> <<>>, alertId |-> NoAlertId,
     notifications |-> <<>>, emitted |-> <<>>, steps |-> <<>>]

\* POST /insert: validation of the request body
InsertMissingField(req) ==
    \/ Falsy(req.emp) \/ Falsy(req.name) \/ Falsy(req.block) \/ Falsy(req.plant)
    \/ Falsy(req.area) \/ Falsy(req.areaspec)
    \/ req.near = undefined \/ req.onem = undefined \/ Falsy(req.currentDate)

InsertNotNumeric(req) ==
    isNaN(parseFloat(req.near)) \/ isNaN(parseFloat(req.onem))

\* the document POST /insert adds to radiation_readings
ReadingDoc(req, t) ==
    [emp |-> req.emp, name |-> req.name, block |-> req.block, plant |-> req.plant,
     area |-> req.area, areaspec |-> req.areaspec,
     near |-> parseFloat(req.near), onem |-> parseFloat(req.onem),
     currentDate |-> req.currentDate, timestamp |-> t]

\* the reading's request as POST /insert receives it
InsertRequest(area, areaspec, near, onem) ==
    [emp |-> "u1", name |-> "User One", block |-> "B1", plant |-> "P1",
     area |-> area, areaspec |-> areaspec, near |-> near, onem |-> onem,
     currentDate |-> "2024-01-01"]

\* checkThresholdViolations without its catch: a failed threshold query or
\* alertHistory write reaches the caller
checkThrowsUncaught(fault) == fault \in {"thresholdQuery", "alertWrite"}

\* whether the awaited checkThresholdViolations throws to its caller: its
\* whole body is inside try { ... } catch, which only logs
checkThrows(fault) == FALSE

\* POST /insert
Insert(area, areaspec, near, onem, fault) ==
    LET req == InsertRequest(area, areaspec, near, onem)
    IN  /\ now < MaxTime
        /\ now' = now + 1
        /\ UNCHANGED <<thresholds, radiationLevels, users, notification_settings>>
        /\ \/ /\ InsertMissingField(req) \/ InsertNotNumeric(req)
              /\ last' = Report("insert", req, fault, 400, 0, NoOutcome)
              /\ UNCHANGED <<readings, alertHistory>>
           \/ /\ ~InsertMissingField(req) /\ ~InsertNotNumeric(req)
              /\ fault = "readingWrite"
              /\ last' = Report("insert", req, fault, 500, 0, NoOutcome)
              /\ UNCHANGED <<readings, alertHistory>>
           \/ /\ ~InsertMissingField(req) /\ ~InsertNotNumeric(req)
              /\ fault # "readingWrite"
              /\ LET out == checkThresholdViolations(thresholds, alertHistory,
                                req.block, req.plant, req.area, parseFloat(req.near),
                                parseFloat(req.onem), req.emp, req.areaspec, fault, now)
                 IN  /\ readings' = Append(readings, ReadingDoc(req, now))
                     /\ alertHistory' = out.hist
                     /\ last' = IF checkThrows(fault)
                                THEN Report("insert", req, fault, 500, 0, out)
                                ELSE Report("insert", req, fault, 200,
                                            Len(readings) + 1,
                                            [out EXCEPT !.steps = <<"write">> \o @])
        /\ Handled

\* the deployment's REALTIME_BLOCK, REALTIME_PLANT, REALTIME_AREA and
\* REALTIME_AREASPEC settings
REALTIME_BLOCK == "B1"
REALTIME_PLANT == "P1"
REALTIME_AREA == "A1"
REALTIME_AREASPEC == "S1"

\* readingNear of ingestRealtimeRadiation: a number is taken as it is, anything
\* else goes through parseFloat(m.value || '0')
FeedReading(value) == IF value = undefined THEN 0 ELSE parseFloat(value)

\* the document ingestRealtimeRadiation adds to radiationLevels
FeedPayload(value, t) ==
    [emp |-> "sensor", name |-> "Safecast Ingest", block |-> REALTIME_BLOCK,
     plant |-> REALTIME_PLANT, area |-> REALTIME_AREA,
     areaspec |-> REALTIME_AREASPEC, near |-> FeedReading(value),
     onem |-> FeedReading(value), currentDate |-> "captured_at",
     timestamp |-> t, source |-> "safecast"]

\* io.emit('dataUpdate', {...})
DataUpdateEvent(id, payload, t) ==
    [event |-> "dataUpdate", type |-> "newReading", id |-> id, data |-> payload,
     timestamp |-> t]

\* ingestRealtimeRadiation, with the feed enabled: `feed` is what the fetch
\* returned ("empty": no measurement), `value` the measurement's value
IngestRealtime(feed, value, fault) ==
    /\ now < MaxTime
    /\ now' = now + 1
    /\ UNCHANGED <<thresholds, readings, users, notification_settings>>
    /\ LET req == [feed |-> feed, value |-> value]
       IN  \/ /\ fault \in {"fetch", "readingWrite"} \/ feed = "empty"
              /\ last' = Report("ingest", req, fault, 0, 0, NoOutcome)
              /\ UNCHANGED <<radiationLevels, alertHistory>>
           \/ /\ fault \notin {"fetch", "readingWrite"} /\ feed # "empty"
              /\ LET payload == FeedPayload(value, now)
                     id  == Len(radiationLevels) + 1
                     out == checkThresholdViolations(thresholds, alertHistory,
                                REALTIME_BLOCK, REALTIME_PLANT, REALTIME_AREA,
                                FeedReading(value), FeedReading(value), "sensor",
                                REALTIME_AREASPEC, fault, now)
                 IN  /\ radiationLevels' = Append(radiationLevels, payload)
                     /\ alertHistory' = out.hist
                     /\ last' = Report("ingest", req, fault, 0, id,
                                   [out EXCEPT
                                      !.emitted = <<DataUpdateEvent(id, payload, now)>> \o @,
                                      !.steps = <<"write", "emitData">> \o @])
    /\ Handled

\* one call of checkThresholdViolations on given arguments
Check(block, plant, area, nearReading, onemReading, emp, areaSpec, fault) ==
    /\ now < MaxTime
    /\ now' = now + 1
    /\ UNCHANGED <<thresholds, readings, radiationLevels, users, notification_settings>>
    /\ LET out == checkThresholdViolations(thresholds, alertHistory, block, plant,
                      area, nearReading, onemReading, emp, areaSpec, fault, now)
       IN  /\ alertHistory' = out.hist
           /\ last' = Report("check", NoData, fault, 0, 0, out)
    /\ Handled

\* the body of PUT /api/thresholds/:id
PutBody(n, o, lvl, active) ==
    [near_threshold |-> n, onem_threshold |-> o, alert_level |-> lvl,
     is_active |-> active]

\* PUT /api/thresholds/:id on the id of a stored config
PutThreshold(id, near_threshold, onem_threshold, alert_level, is_active, fault) ==
    LET body == PutBody(near_threshold, onem_threshold, alert_level, is_active)
        req  == [id |-> id, body |-> body]
    IN  /\ now < MaxTime
        /\ now' = now + 1
        /\ UNCHANGED <<readings, radiationLevels, alertHistory, users, notification_settings>>
        /\ \/ /\ fault = "storeWrite"
              /\ last' = Report("putThreshold", req, fault, 500, 0, NoOutcome)
              /\ UNCHANGED thresholds
           \/ /\ fault # "storeWrite"
              /\ thresholds' = [thresholds EXCEPT ![id] =
                    Merge(@, [near_threshold |-> body.near_threshold,
                              onem_threshold |-> body.onem_threshold,
                              alert_level |-> body.alert_level,
                              isActive |-> body.is_active])]
              /\ last' = Report("putThreshold", req, fault, 200, 0, NoOutcome)
        /\ Handled

\* set() without { merge: true }: the document replaced by the three fields
AcknowledgedDocReplaced(old, acknowledged_by, t) ==
    [acknowledged |-> TRUE, acknowledged_by |-> acknowledged_by, acknowledged_at |-> t]

\* doc(id).set({acknowledged: true, acknowledged_by, acknowledged_at: new
\* Date()}, { merge: true }): the three fields laid over the stored document
AcknowledgedDoc(old, acknowledged_by, t) ==
    Merge(old, [acknowledged |-> TRUE, acknowledged_by |-> acknowledged_by,
                acknowledged_at |-> t])

\* PUT /api/alerts/:id/acknowledge
Acknowledge(id, acknowledged_by, fault) ==
    /\ now < MaxTime
    /\ now' = now + 1
    /\ UNCHANGED <<thresholds, readings, radiationLevels, users, notification_settings>>
    /\ LET req == [id |-> id, acknowledged_by |-> acknowledged_by]
           old == IF id \in DOMAIN alertHistory THEN alertHistory[id] ELSE NoData
           new == AcknowledgedDoc(old, acknowledged_by, now)
       IN  \/ /\ fault = "storeWrite"
              /\ last' = Report("acknowledge", req, fault, 500, 0, NoOutcome)
              /\ UNCHANGED alertHistory
           \/ /\ fault # "storeWrite"
              /\ alertHistory' = [i \in DOMAIN alertHistory \cup {id} |->
                                     IF i = id THEN new ELSE alertHistory[i]]
              /\ last' = Report("acknowledge", req, fault, 200, 0, NoOutcome)
    /\ Handled

\* POST /api/alerts/send-manual: validation of the request body
allowedLevels == {"LOW", "MEDIUM", "HIGH", "CRITICAL"}

ManualInvalidLevelOnly(req) == req.alert_level \notin allowedLevels

ManualInvalid(req) ==
    \/ req.alert_level \notin allowedLevels
    \/ Falsy(req.block) \/ Falsy(req.plant) \/ Falsy(req.area) \/ Falsy(req.message)

\* the alertHistory document of a manual alert typed as a threshold alert
ManualAlertDocAsThreshold(req, t) ==
    [alert_type |-> "THRESHOLD_EXCEEDED", alert_level |-> req.alert_level,
     block |-> req.block, plant |-> req.plant, area |-> req.area,
     emp |-> OrStr(req.emp, "admin"), near_reading |-> 0, onem_reading |-> 0,
     threshold_near |-> 0, threshold_onem |-> 0, message |-> req.message,
     acknowledged |-> FALSE, created_at |-> t]

\* the document POST /api/alerts/send-manual adds to alertHistory
ManualAlertDoc(req, t) ==
    [alert_type |-> "MANUAL", alert_level |-> req.alert_level, block |-> req.block,
     plant |-> req.plant, area |-> req.area, emp |-> OrStr(req.emp, "admin"),
     near_reading |-> 0, onem_reading |-> 0, threshold_near |-> 0,
     threshold_onem |-> 0, message |-> req.message, acknowledged |-> FALSE,
     created_at |-> t]

\* POST /api/alerts/send-manual
ManualAlert(alert_level, block, plant, area, message, emp, fault) ==
    LET req == [alert_level |-> alert_level, block |-> block, plant |-> plant,
                area |-> area, message |-> message, emp |-> emp]
    IN  /\ now < MaxTime
        /\ now' = now + 1
        /\ UNCHANGED <<thresholds, readings, radiationLevels, users,
                       notification_settings>>
        /\ \/ /\ ManualInvalid(req)
              /\ last' = Report("manual", req, fault, 400, 0, NoOutcome)
              /\ UNCHANGED alertHistory
           \/ /\ ~ManualInvalid(req)
              /\ fault = "alertWrite"
              /\ last' = Report("manual", req, fault, 500, 0, NoOutcome)
              /\ UNCHANGED alertHistory
           \/ /\ ~ManualInvalid(req)
              /\ fault # "alertWrite"
              /\ alertHistory' = AddAlert(alertHistory, ManualAlertDoc(req, now))
              /\ last' = Report("manual", req, fault, 200, 0,
                    [NoOutcome EXCEPT
                       !.alertId = NextAlertId(alertHistory),
                       !.notifications =
                           <<sendAlertNotifications(alert_level, message, block,
                                                    plant, area, TRUE, Down(fault))>>,
                       !.emitted =
                           <<AlertEvent("manual", alert_level, message, block,
                                        plant, area, now)>>,
                       !.steps =
                           AlertSteps(sendAlertNotifications(alert_level, message,
                                          block, plant, area, TRUE, Down(fault)))])
        /\ Handled

\* one call of sendAlertNotifications on given arguments
Notify(alertLevel, forceAll, down) ==
    /\ now < MaxTime
    /\ now' = now + 1
    /\ UNCHANGED <<thresholds, readings, radiationLevels, alertHistory, users,
                   notification_settings>>
    /\ last' = Report("notify",
                      [alertLevel |-> alertLevel, forceAll |-> forceAll, down |-> down],
                      "none", 0, 0,
                      [NoOutcome EXCEPT !.notifications =
                          <<sendAlertNotifications(alertLevel, "drill", "B1", "P1",
                                                   "A1", forceAll, down)>>])
    /\ Handled

\* the connection handler replaying the server's latest events to the
\* socket that connects
OnConnectionReplay(o) == last.emitted

\* io.on('connection', socket => ...): what the handler sends the new
\* socket: it logs, counts and registers listeners, and emits nothing
OnConnection(o) == <<>>

\* a browser's socket connects
Connect(o) ==
    /\ o \notin connected
    /\ connected' = connected \cup {o}
    /\ inbox' = [inbox EXCEPT ![o] = @ \o OnConnection(o)]
    /\ UNCHANGED serverVars
    /\ UNCHANGED clientVars

\* socket.on('disconnect'): the socket leaves; the others stay
Disconnect(o) ==
    /\ o \in connected
    /\ connected' = connected \ {o}
    /\ UNCHANGED inbox
    /\ UNCHANGED serverVars
    /\ UNCHANGED clientVars

(***************************************************************************)
(* The browser page's offline queue (public/client.js and                  *)
(* public/advanced-features.js).  A saved reading is named by its number.  *)
(***************************************************************************)
\* the elements of a queue
Queued(q) == {q[i] : i \in DOMAIN q}

\* handleRadiationDataSubmit when fetch throws and !navigator.onLine:
\* storeOfflineData(formData) appends the reading to the array kept in
\* localStorage; the page's in-memory offlineData is a different variable
\* and is not touched
storeOfflineData ==
    /\ ~online
    /\ saved < MaxSaved
    /\ saved' = saved + 1
    /\ localStorage' = Append(localStorage, saved + 1)
    /\ UNCHANGED <<offlineData, syncAt, online, accepted>>
    /\ UNCHANGED serverVars
    /\ UNCHANGED observerVars

\* the page is loaded again: initializeOfflineSupport reads the stored array
\* into offlineData; a sync loop of the previous page is gone
initializeOfflineSupport ==
    /\ offlineData' = localStorage
    /\ syncAt' = 0
    /\ UNCHANGED <<localStorage, online, saved, accepted>>
    /\ UNCHANGED serverVars
    /\ UNCHANGED observerVars

\* syncOfflineData up to its first await: the loop starts when the in-memory
\* queue is not empty
SyncStart == IF Len(offlineData) > 0 THEN 1 ELSE 0

\* window 'offline' event
handleOfflineStatus ==
    /\ online
    /\ online' = FALSE
    /\ UNCHANGED <<localStorage, offlineData, syncAt, saved, accepted>>
    /\ UNCHANGED serverVars
    /\ UNCHANGED observerVars

\* window 'online' event: handleOnlineStatus calls syncOfflineData (taken
\* when no earlier loop is still running)
handleOnlineStatus ==
    /\ ~online
    /\ syncAt = 0
    /\ online' = TRUE
    /\ syncAt' = SyncStart
    /\ UNCHANGED <<localStorage, offlineData, saved, accepted>>
    /\ UNCHANGED serverVars
    /\ UNCHANGED observerVars

\* one pass of the loop of syncOfflineData: the awaited fetch('/insert')
\* for offlineData[syncAt] ends with the server accepting the reading, with
\* an error response, or with a network error (the only outcome while
\* offline); the loop looks at none of this.  After the last pass the
\* function empties offlineData and removes the stored array.
syncFetch(outcome) ==
    /\ syncAt \in DOMAIN offlineData
    /\ ~online => outcome = "network"
    /\ accepted' = IF outcome = "accepted" THEN accepted \cup {offlineData[syncAt]}
                   ELSE accepted
    /\ IF syncAt < Len(offlineData)
       THEN /\ syncAt' = syncAt + 1
            /\ UNCHANGED <<localStorage, offlineData>>
       ELSE /\ syncAt' = 0
            /\ offlineData' = <<>>
            /\ localStorage' = <<>>
    /\ UNCHANGED <<online, saved>>
    /\ UNCHANGED serverVars
    /\ UNCHANGED observerVars

(***************************************************************************)
(* Stored configurations and request inputs the specifications range over  *)
(***************************************************************************)
\* finite channel values and limits
Values == 0 .. MaxVal
\* what a request may carry as a channel value: finite numbers, the
\* non-finite numbers, non-numeric text (parsed to NaN) and nothing at all
RawValues == Values \cup {undefined, NaN, POSITIVE_INFINITY, NEGATIVE_INFINITY}

\* location fields of a config
Location(plant, area) == [block |-> "B1", plant |-> plant, area |-> area]

\* limits and severity under the three field namings the code reads
SnakeLimits(n, o, lvl) ==
    [near_threshold |-> n, onem_threshold |-> o, alert_level |-> lvl]
CamelLimits(n, o, lvl) ==
    [nearThreshold |-> n, onemThreshold |-> o, alertLevel |-> lvl]
BareLimits(n) == [near |-> n]

\* the active flag under both namings, set, cleared or missing
ActiveCamel == [isActive |-> TRUE]
ActiveSnake == [is_active |-> TRUE]
Inactive == [isActive |-> FALSE]

Config(loc, limits, active) == Merge(Merge(loc, limits), active)

\* a users document; the document's id is the user's empid
UserDoc(id, active, isAdmin, email, phone) ==
    [empid |-> id, name |-> id, email |-> email, phone |-> phone,
     isActive |-> active, isAdmin |-> isAdmin]

\* a notification_settings document
SettingsDoc(email, sms, levels) ==
    [emailNotifications |-> email, smsNotifications |-> sms, alertLevels |-> levels]

\* a registry of one active subscriber with both addresses, an inactive
\* administrator and an active subscriber without an email address
Registry ==
    [u1 |-> UserDoc("u1", TRUE, FALSE, "u1@plant", "+1"),
     u2 |-> UserDoc("u2", FALSE, TRUE, "u2@plant", "+2"),
     u3 |-> UserDoc("u3", TRUE, FALSE, "", "+3")]

\* u1 has the settings registration stores; the others have none
RegistrySettings ==
    [u1 |-> SettingsDoc(TRUE, TRUE, {"MEDIUM", "HIGH", "CRITICAL"})]

\* no socket connected, nothing received
NobodyConnected ==
    /\ connected = {}
    /\ inbox = [o \in ObserverIds |-> <<>>]

\* a page just opened, online, with nothing saved
FreshPage ==
    /\ localStorage = <<>>
    /\ offlineData = <<>>
    /\ syncAt = 0
    /\ online = TRUE
    /\ saved = 0
    /\ accepted = {}

Start ==
    /\ users = Registry
    /\ notification_settings = RegistrySettings
    /\ readings = <<>>
    /\ radiationLevels = <<>>
    /\ alertHistory = NoData
    /\ now = 0
    /\ last = Report("init", NoData, "none", 0, 0, NoOutcome)
    /\ NobodyConnected
    /\ FreshPage

(***************************************************************************)
(* SpecResolve: checkThresholdViolations applied to stores that vary in    *)
(* the areas, the active flags and the limits of their configs.            *)
(***************************************************************************)
ResolveAreas == {"A1", "S1", "ANY", "A2", ""}

ResolveConfigs ==
    {Config(Location("P1", a), SnakeLimits(1, MaxVal, "HIGH"), k) :
        a \in ResolveAreas, k \in {ActiveCamel, ActiveSnake, Inactive}}
    \cup {Config(Location("P2", "A1"), SnakeLimits(1, 1, "CRITICAL"), ActiveCamel)}

InitResolve ==
    /\ thresholds \in [ThresholdIds -> ResolveConfigs]
    /\ Start

\* one call on each drawn store and argument list
NextResolve ==
    /\ now = 0
    /\ \E area \in {"A1", "A2"}, areaSpec \in {"", Absent, "S1"}, near \in {0, MaxVal} :
          Check("B1", "P1", area, near, 0, "u1", areaSpec, "none")

SpecResolve == InitResolve /\ [][NextResolve]_vars

(***************************************************************************)
(* SpecFallback: checkThresholdViolations applied to stores whose configs  *)
(* all lie in another area of the plant and vary in their limits, so that  *)
(* only the plant-level fallback can find one.                             *)
(***************************************************************************)
\* limits of which the near one may be missing from the document
PartialLimits(n, o, lvl) ==
    IF n = undefined THEN [onem_threshold |-> o, alert_level |-> lvl]
    ELSE SnakeLimits(n, o, lvl)

FallbackConfigs ==
    {Config(Location("P1", "A2"), PartialLimits(n, o, "HIGH"), k) :
        n \in {undefined, 0, 1, MaxVal}, o \in {0, MaxVal},
        k \in {ActiveCamel, Inactive}}

InitFallback ==
    /\ thresholds \in [ThresholdIds -> FallbackConfigs]
    /\ Start

NextFallback ==
    /\ now = 0
    /\ \E areaSpec \in {"", "S1"}, near \in {0, MaxVal}, onem \in {0, MaxVal} :
          Check("B1", "P1", "A1", near, onem, "u1", areaSpec, "none")

SpecFallback == InitFallback /\ [][NextFallback]_vars

(***************************************************************************)
(* SpecIngest: one reading, submitted by a user or taken from the feed, on *)
(* stores whose config for the reading's area varies in its limits, its    *)
(* severity and its active flag.                                           *)
(***************************************************************************)
IngestConfigs ==
    {Config(Location("P1", "A1"), l, k) :
        l \in {SnakeLimits(n, o, "HIGH") : n \in Values, o \in Values}
              \cup {CamelLimits(1, 1, "CRITICAL"), BareLimits(1)},
        k \in {ActiveCamel, Inactive}}

InitIngest ==
    /\ thresholds \in
          {[t1 |-> c,
            t2 |-> Config(Location("P1", "ANY"), SnakeLimits(MaxVal, MaxVal, "LOW"),
                          Inactive),
            t3 |-> Config(Location("P2", "A1"), SnakeLimits(1, 1, "CRITICAL"),
                          ActiveCamel)] : c \in IngestConfigs}
    /\ Start

NextIngest ==
    /\ now = 0
    /\ \/ \E areaspec \in {"S1", ""}, near \in RawValues, onem \in RawValues,
             fault \in {"none", "readingWrite", "thresholdQuery", "alertWrite", "u1"} :
             Insert("A1", areaspec, near, onem, fault)
       \/ \E feed \in {"measurement", "empty"}, value \in RawValues,
             fault \in {"none", "fetch", "readingWrite", "alertWrite"} :
             IngestRealtime(feed, value, fault)

SpecIngest == InitIngest /\ [][NextIngest]_vars

(***************************************************************************)
(* SpecNotify: sendAlertNotifications applied to registries that vary in   *)
(* the subscribers' flags, addresses and stored settings.                  *)
(***************************************************************************)
EmailOf == [u1 |-> "u1@plant", u2 |-> "u2@plant", u3 |-> "u3@plant"]
PhoneOf == [u1 |-> "+1", u2 |-> "+2", u3 |-> "+3"]

UserDocs(id) ==
    {UserDoc(id, active, isAdmin, email, phone) :
        active \in BOOLEAN, isAdmin \in BOOLEAN,
        email \in {EmailOf[id], ""}, phone \in {PhoneOf[id], ""}}

\* stored settings; NoData stands for a subscriber without a document
SettingsChoices ==
    {NoData,
     SettingsDoc(TRUE, FALSE, {"LOW"}),
     SettingsDoc(FALSE, TRUE, {"LOW", "HIGH"}),
     SettingsDoc(FALSE, FALSE, {"HIGH"})}

SettingsOfChoice(ch) == [id \in {i \in DOMAIN ch : DOMAIN ch[i] # {}} |-> ch[id]]

InitNotify ==
    /\ users \in {[u1 |-> a, u2 |-> b, u3 |-> c] :
                    a \in UserDocs("u1"), b \in UserDocs("u2"),
                    c \in {UserDoc("u3", TRUE, FALSE, EmailOf["u3"], PhoneOf["u3"]),
                           UserDoc("u3", FALSE, TRUE, EmailOf["u3"], "")}}
    /\ notification_settings \in
          {SettingsOfChoice([u1 |-> a, u2 |-> b, u3 |-> c]) :
              a \in SettingsChoices, b \in SettingsChoices,
              c \in {NoData, SettingsDoc(TRUE, TRUE, {"MEDIUM", "HIGH", "CRITICAL"})}}
    /\ thresholds = [id \in ThresholdIds |->
                       Config(Location("P1", "A1"), SnakeLimits(1, 1, "HIGH"), ActiveCamel)]
    /\ readings = <<>>
    /\ radiationLevels = <<>>
    /\ alertHistory = NoData
    /\ now = 0
    /\ last = Report("init", NoData, "none", 0, 0, NoOutcome)
    /\ NobodyConnected
    /\ FreshPage

\* one call on each drawn registry, and one violating reading and one manual
\* alert, each with and without a subscriber the transports reject
NextNotify ==
    /\ now = 0
    /\ \/ \E alertLevel \in {"LOW", "HIGH"}, forceAll \in BOOLEAN,
             down \in UserIds \cup {"none"} :
             Notify(alertLevel, forceAll, down)
       \/ \E fault \in {"none", "u2"} : Insert("A1", "S1", MaxVal, 0, fault)
       \/ \E fault \in {"none", "u1"} :
             ManualAlert("LOW", "B1", "P1", "A1", "drill", "admin", fault)

SpecNotify == InitNotify /\ [][NextNotify]_vars

(***************************************************************************)
(* SpecDispatchFaults: sendAlertNotifications applied to registries whose  *)
(* administrator document varies in position, active flag and identifying  *)
(* field, with a transport that rejects, a transport that never answers,   *)
(* and a settings read that fails.                                         *)
(***************************************************************************)
\* an administrator's users document: it carries empid, or uid in its
\* place, or neither (line 574 reads admin.empid || admin.uid || 'admin')
AdminUserDoc(id, active, ident) ==
    LET base == [name |-> id, email |-> EmailOf[id], phone |-> PhoneOf[id],
                 isActive |-> active, isAdmin |-> TRUE]
    IN  CASE ident = "empid" -> Merge(base, [empid |-> id])
          [] ident = "uid" -> Merge(base, [uid |-> id])
          [] OTHER -> base

\* the registry with the administrator at position adminAt and two active
\* subscribers with both addresses around it
FaultRegistry(adminAt, active, ident) ==
    [id \in UserIds |->
        IF id = adminAt THEN AdminUserDoc(id, active, ident)
        ELSE UserDoc(id, TRUE, FALSE, EmailOf[id], PhoneOf[id])]

\* every way one dispatch can go wrong
DispatchFaults ==
    {"none"} \cup UserIds \cup {HangOf[id] : id \in UserIds}
    \cup {UnreadableOf[id] : id \in UserIds}

InitDispatchFaults ==
    /\ users \in {FaultRegistry(adminAt, active, ident) :
                    adminAt \in UserIds, active \in BOOLEAN,
                    ident \in {"empid", "uid", "none"}}
    /\ notification_settings \in
          {SettingsOfChoice([u1 |-> a, u2 |-> b, u3 |-> c]) :
              a \in {NoData, SettingsDoc(TRUE, TRUE, {"LOW", "HIGH"})},
              b \in {NoData, SettingsDoc(TRUE, FALSE, {"HIGH"})},
              c \in {NoData, SettingsDoc(TRUE, TRUE, {"LOW", "HIGH"})}}
    /\ thresholds = [id \in ThresholdIds |->
                       Config(Location("P1", "A1"), SnakeLimits(1, 1, "HIGH"), ActiveCamel)]
    /\ readings = <<>>
    /\ radiationLevels = <<>>
    /\ alertHistory = NoData
    /\ now = 0
    /\ last = Report("init", NoData, "none", 0, 0, NoOutcome)
    /\ NobodyConnected
    /\ FreshPage

NextDispatchFaults ==
    /\ now = 0
    /\ \E alertLevel \in {"LOW", "HIGH"}, forceAll \in BOOLEAN, down \in DispatchFaults :
          Notify(alertLevel, forceAll, down)

SpecDispatchFaults == InitDispatchFaults /\ [][NextDispatchFaults]_vars

(***************************************************************************)
(* SpecBroadcast: sockets connecting and disconnecting between requests    *)
(* that raise alerts.                                                      *)
(***************************************************************************)
InitBroadcast ==
    /\ thresholds = [id \in ThresholdIds |->
                       Config(Location("P1", "A1"), SnakeLimits(1, 1, "HIGH"), ActiveCamel)]
    /\ Start

NextBroadcast ==
    \/ \E o \in ObserverIds : Connect(o)
    \/ \E o \in ObserverIds : Disconnect(o)
    \/ \E near \in {0, MaxVal}, fault \in {"none", "alertWrite"} :
          Insert("A1", "S1", near, 0, fault)
    \/ IngestRealtime("measurement", MaxVal, "none")
    \/ ManualAlert("HIGH", "B1", "P1", "A1", "drill", "admin", "none")

SpecBroadcast == InitBroadcast /\ [][NextBroadcast]_vars

(***************************************************************************)
(* SpecOffline: one browser page saving readings offline, reloading,       *)
(* reconnecting and syncing.                                               *)
(***************************************************************************)
InitOffline ==
    /\ thresholds = [id \in ThresholdIds |->
                       Config(Location("P1", "A1"), SnakeLimits(1, 1, "HIGH"), ActiveCamel)]
    /\ Start

NextOffline ==
    \/ storeOfflineData
    \/ initializeOfflineSupport
    \/ handleOfflineStatus
    \/ handleOnlineStatus
    \/ \E outcome \in {"accepted", "refused", "network"} : syncFetch(outcome)

SpecOffline == InitOffline /\ [][NextOffline]_vars

(***************************************************************************)
(* Spec: the server handling a sequence of requests.                       *)
(***************************************************************************)
Init ==
    /\ thresholds \in
          {[t1 |-> Config(Location("P1", "A1"), SnakeLimits(1, 1, "HIGH"), k),
            t2 |-> Config(Location("P1", "ANY"), SnakeLimits(MaxVal, MaxVal, "LOW"),
                          Inactive),
            t3 |-> Config(Location("P2", "A1"), SnakeLimits(1, 1, "CRITICAL"),
                          ActiveCamel)] : k \in {ActiveCamel, ActiveSnake}}
    /\ Start

Next ==
    \/ \E near \in {0, MaxVal, NaN},
          fault \in {"none", "readingWrite", "alertWrite"} :
          Insert("A1", "S1", near, 0, fault)
    \/ \E feed \in {"measurement", "empty"}, fault \in {"none", "fetch"} :
          IngestRealtime(feed, MaxVal, fault)
    \/ \E id \in ThresholdIds, near_threshold \in {0, MaxVal}, is_active \in BOOLEAN,
          fault \in {"none", "storeWrite"} :
          PutThreshold(id, near_threshold, MaxVal, "LOW", is_active, fault)
    \/ \E id \in DOMAIN alertHistory \cup {NoAlertId},
          by \in {"admin", "u2"}, fault \in {"none", "storeWrite"} :
          Acknowledge(id, by, fault)
    \/ \E alert_level \in {"CRITICAL", "URGENT"},
          blank \in {"none", "block", "plant", "area", "message"},
          fault \in {"none", "alertWrite"} :
          ManualAlert(alert_level,
                      IF blank = "block" THEN "" ELSE "B2",
                      IF blank = "plant" THEN "" ELSE "P2",
                      IF blank = "area" THEN "" ELSE "Lobby",
                      IF blank = "message" THEN "" ELSE "drill",
                      Absent, fault)

Spec == Init /\ [][Next]_vars

(***************************************************************************)
(* Properties                                                              *)
(***************************************************************************)
\* the last request ran threshold resolution to its end
Resolved == DOMAIN last.call # {} /\ last.fault # "thresholdQuery"

\* a config flagged active under either naming
FlaggedActive(d) == \E k \in {"isActive", "is_active"} \cap DOMAIN d : d[k] = TRUE

\* the active configs of the last call's (block, plant) with the given area
ActiveAt(area) ==
    {id \in ThresholdIds :
        /\ Str(thresholds[id], "block") = last.call.block
        /\ Str(thresholds[id], "plant") = last.call.plant
        /\ Str(thresholds[id], "area") = area
        /\ FlaggedActive(thresholds[id])}

\* the active configs of the last call's (block, plant)
ActiveAtPlant ==
    {id \in ThresholdIds :
        /\ Str(thresholds[id], "block") = last.call.block
        /\ Str(thresholds[id], "plant") = last.call.plant
        /\ FlaggedActive(thresholds[id])}

\* C1: when an active config for exactly (block, plant, area) and an active
\* wildcard ('ANY') config for (block, plant) both exist, the reading is
\* evaluated against an area-exact config, never the wildcard one.
C1_ExactBeforeWildcard ==
    (Resolved /\ ActiveAt(last.call.area) # {} /\ ActiveAt("ANY") # {})
        => last.thresholdDoc \in ActiveAt(last.call.area)

C1_Witness ==
    /\ Resolved
    /\ last.call.area # "ANY"
    /\ ActiveAt(last.call.area) # {}
    /\ ActiveAt("ANY") # {}
    /\ last.thresholdDoc \in ActiveAt(last.call.area)

\* C2: with no active exact config, a non-empty areaSpec selects an active
\* config whose area equals areaSpec before the wildcard and the plant-level
\* fallback; an empty or absent areaSpec skips that tier, and the wildcard
\* config is used.
C2_AreaSpecTier ==
    (Resolved /\ ActiveAt(last.call.area) = {}) =>
        /\ (~Falsy(last.call.areaSpec) /\ ActiveAt(last.call.areaSpec) # {})
              => last.thresholdDoc \in ActiveAt(last.call.areaSpec)
        /\ (Falsy(last.call.areaSpec) /\ ActiveAt("ANY") # {})
              => last.thresholdDoc \in ActiveAt("ANY")

C2_Witness ==
    /\ Resolved
    /\ ActiveAt(last.call.area) = {}
    /\ ~Falsy(last.call.areaSpec)
    /\ ActiveAt(last.call.areaSpec) # {}
    /\ ActiveAt("ANY") # {}
    /\ ActiveAtPlant \ (ActiveAt(last.call.areaSpec) \cup ActiveAt("ANY")) # {}
    /\ last.thresholdDoc \in ActiveAt(last.call.areaSpec)

\* the sum of the two limits the evaluator compares a reading against
EvaluatedSum(d) == nearThresholdVal(d) + onemThresholdVal(d)

\* only the plant-level fallback can answer the last call
FallbackOnly ==
    /\ Resolved
    /\ ActiveAt(last.call.area) = {}
    /\ Falsy(last.call.areaSpec) \/ ActiveAt(last.call.areaSpec) = {}
    /\ ActiveAt("ANY") = {}
    /\ ActiveAtPlant # {}

\* C3: when the exact, areaSpec and wildcard tiers find nothing, the config
\* chosen among the active configs of (block, plant) has a minimal sum of
\* near limit + far limit, the limits being the values the evaluator compares
\* the reading against (a limit of 0 or a missing limit counting as 0).
C3_FallbackMinimalSum ==
    FallbackOnly =>
        /\ last.thresholdDoc \in ActiveAtPlant
        /\ \A e \in ActiveAtPlant :
              EvaluatedSum(thresholds[last.thresholdDoc]) <= EvaluatedSum(thresholds[e])

\* a config flagged inactive under either naming
FlaggedInactive(d) == \E k \in {"isActive", "is_active"} \cap DOMAIN d : d[k] = FALSE

\* C4: a config whose active flag is false is never the resolved config; in
\* particular, once PUT /api/thresholds/:id has set a config's active flag to
\* false, no later reading is evaluated against it, whichever field naming
\* the stored config used for the flag.
C4_InactiveNeverResolved ==
    (Resolved /\ last.thresholdDoc # NoDoc)
        => ~FlaggedInactive(thresholds[last.thresholdDoc])

\* the request POST /insert handled last was well-formed and its reading was
\* written
Accepted(l) ==
    /\ l.op = "insert"
    /\ ~InsertMissingField(l.req)
    /\ l.req.near \in Values \cup {POSITIVE_INFINITY, NEGATIVE_INFINITY}
    /\ l.req.onem \in Values \cup {POSITIVE_INFINITY, NEGATIVE_INFINITY}
    /\ l.fault # "readingWrite"

\* no config of the request's (block, plant) is flagged active
NoActiveConfig(store, req) ==
    \A id \in ThresholdIds :
        \/ Str(store[id], "block") # req.block
        \/ Str(store[id], "plant") # req.plant
        \/ ~FlaggedActive(store[id])

\* C5: when no active config exists at any tier for a reading's location,
\* the submission creates no alert record, sends no notification and emits no
\* alert event, and still stores the reading and reports success.
C5_NoConfigNoAlert ==
    [][(Accepted(last') /\ NoActiveConfig(thresholds', last'.req)) =>
          /\ alertHistory' = alertHistory
          /\ last'.alertId = NoAlertId
          /\ last'.notifications = <<>>
          /\ last'.emitted = <<>>
          /\ readings' = Append(readings, ReadingDoc(last'.req, now))
          /\ last'.status = 200
          /\ last'.id = Len(readings')]_vars

C5_Witness ==
    /\ Accepted(last)
    /\ NoActiveConfig(thresholds, last.req)
    /\ last.req.near > MaxVal - 1
    /\ last.status = 200
    /\ Len(readings) = 1
    /\ DOMAIN alertHistory = {}

\* the last request evaluated a reading with finite channels against a config
Evaluated(l) ==
    /\ DOMAIN l.call # {}
    /\ l.fault # "thresholdQuery"
    /\ l.thresholdDoc # NoDoc
    /\ l.call.near \in Values
    /\ l.call.onem \in Values

\* the channels of reading `call` that exceed the limits of config d
NearExceeded(call, d) == call.near > nearThresholdVal(d)
OnemExceeded(call, d) == call.onem > onemThresholdVal(d)

\* the alert record the last request created is a THRESHOLD_EXCEEDED one
AlertRaised ==
    /\ last.alertId # NoAlertId
    /\ last.alertId \in DOMAIN alertHistory
    /\ alertHistory[last.alertId]["alert_type"] = "THRESHOLD_EXCEEDED"

\* C6: a violation is detected, and a THRESHOLD_EXCEEDED alert raised, if and
\* only if near > near limit or far > far limit, strictly; a reading with both
\* channels at or below their limits raises no alert.
C6_StrictComparison ==
    Evaluated(last) =>
        LET d == thresholds[last.thresholdDoc]
            exceeded == NearExceeded(last.call, d) \/ OnemExceeded(last.call, d)
        IN  /\ (last.violations # <<>>) <=> exceeded
            /\ ~exceeded => last.alertId = NoAlertId
            /\ (exceeded /\ last.fault = "none") => AlertRaised

C6_Witness ==
    /\ Evaluated(last)
    /\ last.call.near = nearThresholdVal(thresholds[last.thresholdDoc])
    /\ last.call.onem = onemThresholdVal(thresholds[last.thresholdDoc])
    /\ last.call.near > 0
    /\ last.violations = <<>>
    /\ last.alertId = NoAlertId

\* C7: each ingestion of a violating reading creates exactly one alert record,
\* also when both channels exceed, of type THRESHOLD_EXCEEDED, with the
\* resolved config's severity, the reading's near/far values, the near/far
\* limits it was compared against, and acknowledged = false.
C7_OneAlertPerViolation ==
    [][(Evaluated(last') /\ last'.fault = "none"
          /\ (\/ NearExceeded(last'.call, thresholds'[last'.thresholdDoc])
              \/ OnemExceeded(last'.call, thresholds'[last'.thresholdDoc])))
       => LET d == thresholds'[last'.thresholdDoc]
              a == alertHistory'[last'.alertId]
          IN  /\ last'.alertId \notin DOMAIN alertHistory
              /\ DOMAIN alertHistory' = DOMAIN alertHistory \cup {last'.alertId}
              /\ \A i \in DOMAIN alertHistory : alertHistory'[i] = alertHistory[i]
              /\ a["alert_type"] = "THRESHOLD_EXCEEDED"
              /\ a["alert_level"] = thresholdLevel(d)
              /\ a["near_reading"] = last'.call.near
              /\ a["onem_reading"] = last'.call.onem
              /\ a["threshold_near"] = nearThresholdVal(d)
              /\ a["threshold_onem"] = onemThresholdVal(d)
              /\ a["acknowledged"] = FALSE
              /\ "acknowledged_by" \notin DOMAIN a]_vars

C7_Witness ==
    /\ Evaluated(last)
    /\ last.fault = "none"
    /\ NearExceeded(last.call, thresholds[last.thresholdDoc])
    /\ OnemExceeded(last.call, thresholds[last.thresholdDoc])
    /\ DOMAIN alertHistory = {last.alertId}
    /\ alertHistory[last.alertId]["alert_level"] = "CRITICAL"

\* the channel names of a list of violation entries
RECURSIVE Channels(_)
Channels(v) == IF v = <<>> THEN <<>> ELSE <<Head(v).channel>> \o Channels(Tail(v))

\* C8: the list of violation reasons has exactly one entry per exceeded
\* channel and no other, the near entry before the far entry.
C8_ReasonsPerChannel ==
    Evaluated(last) =>
        LET d == thresholds[last.thresholdDoc]
        IN  /\ Channels(last.violations) =
                  (IF NearExceeded(last.call, d) THEN <<"near">> ELSE <<>>)
                  \o (IF OnemExceeded(last.call, d) THEN <<"onem">> ELSE <<>>)
            /\ \A i \in DOMAIN last.violations :
                  LET e == last.violations[i]
                  IN  IF e.channel = "near"
                      THEN e.reading = last.call.near /\ e.threshold = nearThresholdVal(d)
                      ELSE e.reading = last.call.onem /\ e.threshold = onemThresholdVal(d)

C8_Witness ==
    /\ Evaluated(last)
    /\ Channels(last.violations) = <<"near", "onem">>

\* C9: a reading whose near or far value is missing or non-finite is never
\* rejected and never raises a violation on that channel (it counts as 0), on
\* the POST /insert path and on the ingestRealtimeRadiation path.
C9_NonFiniteCountsAsZero ==
    /\ (/\ last.op = "insert"
        /\ ~Falsy(last.req.areaspec)
        /\ last.fault = "none")
       => /\ last.status = 200
          /\ \A i \in DOMAIN last.violations :
                /\ last.violations[i].channel = "near" => last.req.near \in Values
                /\ last.violations[i].channel = "onem" => last.req.onem \in Values
    /\ (/\ last.op = "ingest"
        /\ last.req.feed = "measurement"
        /\ last.fault = "none"
        /\ last.req.value \notin Values)
       => /\ last.id # 0
          /\ last.violations = <<>>

\* C10: of the acknowledge calls on one alert record only the first performs
\* the Pending -> Acknowledged transition; every later call is answered
\* AlreadyAcknowledged and leaves acknowledged_by and acknowledged_at as the
\* first call wrote them.
C10_FirstAcknowledgeWins ==
    [][\A id \in DOMAIN alertHistory :
          (/\ "alert_type" \in DOMAIN alertHistory[id]
           /\ alertHistory[id]["acknowledged"] = TRUE
           /\ last'.op = "acknowledge"
           /\ last'.req.id = id)
          => /\ last'.status # 200
             /\ alertHistory'[id] = alertHistory[id]]_vars

\* C11: acknowledging an alert id for which no alert record exists returns
\* NotFound to the caller and leaves the alert store unchanged; it creates no
\* record under that id.
C11_AcknowledgeMissingNotFound ==
    [][(/\ last'.op = "acknowledge"
        /\ last'.fault = "none"
        /\ last'.req.id \notin DOMAIN alertHistory)
       => /\ last'.status = 404
          /\ alertHistory' = alertHistory]_vars

\* C12: every alert record is created with acknowledged = false; acknowledged
\* is true exactly when acknowledged_by and acknowledged_at are both set; and
\* once acknowledged is true it never becomes false again.
C12_AcknowledgmentLifecycle ==
    [][/\ \A id \in DOMAIN alertHistory' \ DOMAIN alertHistory :
             alertHistory'[id]["acknowledged"] = FALSE
       /\ \A id \in DOMAIN alertHistory' :
             alertHistory'[id]["acknowledged"] = TRUE
             <=> {"acknowledged_by", "acknowledged_at"} \subseteq DOMAIN alertHistory'[id]
       /\ \A id \in DOMAIN alertHistory :
             alertHistory[id]["acknowledged"] = TRUE
             => alertHistory'[id]["acknowledged"] = TRUE]_vars

\* a manual alert request that passes the boundary's validation
ValidManual(req) ==
    /\ req.alert_level \in {"LOW", "MEDIUM", "HIGH", "CRITICAL"}
    /\ req.block # "" /\ req.plant # "" /\ req.area # "" /\ req.message # ""

\* C13: a valid manual alert submission creates exactly one alert record, of
\* type MANUAL, with the submitted severity, location and message, near/far
\* reading and near/far threshold fields all zero and acknowledged = false,
\* consults no threshold configuration, and dispatches its notifications with
\* override-all enabled.
C13_ManualAlertRecord ==
    [][(last'.op = "manual" /\ last'.fault = "none" /\ ValidManual(last'.req))
       => LET a == alertHistory'[last'.alertId]
              r == last'.req
          IN  /\ last'.alertId \notin DOMAIN alertHistory
              /\ DOMAIN alertHistory' = DOMAIN alertHistory \cup {last'.alertId}
              /\ \A i \in DOMAIN alertHistory : alertHistory'[i] = alertHistory[i]
              /\ a["alert_type"] = "MANUAL"
              /\ a["alert_level"] = r.alert_level
              /\ a["block"] = r.block /\ a["plant"] = r.plant /\ a["area"] = r.area
              /\ a["message"] = r.message
              /\ a["near_reading"] = 0 /\ a["onem_reading"] = 0
              /\ a["threshold_near"] = 0 /\ a["threshold_onem"] = 0
              /\ a["acknowledged"] = FALSE
              /\ last'.thresholdDoc = NoDoc /\ DOMAIN last'.call = {}
              /\ Len(last'.notifications) = 1
              /\ last'.notifications[1].forceAll = TRUE
              /\ last'.notifications[1].alertLevel = r.alert_level
              /\ last'.notifications[1].message = r.message]_vars

C13_Witness ==
    /\ last.op = "manual"
    /\ last.status = 200
    /\ last.alertId \in DOMAIN alertHistory
    /\ Cardinality(DOMAIN alertHistory) > 1
    /\ alertHistory[last.alertId]["alert_type"] = "MANUAL"
    /\ last.notifications[1].forceAll = TRUE

\* C14: a manual alert whose severity is not one of LOW, MEDIUM, HIGH,
\* CRITICAL, or whose block, plant, area or message is empty, is rejected with
\* a validation error: no alert record is created, no notification is sent
\* and no alert event is broadcast.
C14_InvalidManualRejected ==
    [][(last'.op = "manual" /\ ~ValidManual(last'.req))
       => /\ last'.status = 400
          /\ alertHistory' = alertHistory
          /\ last'.notifications = <<>>
          /\ last'.emitted = <<>>]_vars

C14_Witness ==
    /\ last.op = "manual"
    /\ last.status = 400
    /\ last.req.alert_level = "CRITICAL"
    /\ last.req.area = ""
    /\ DOMAIN alertHistory # {}

\* the dispatch the last request made
Dispatched == Len(last.notifications) = 1
Dispatch == last.notifications[1]

\* the subscribers the dispatch handed an email (an SMS) for to the transport
EmailedTo(n) == {n.attempts[i].empid : i \in {j \in DOMAIN n.attempts :
                                                  n.attempts[j].channel = "email"}}
SmsTo(n) == {n.attempts[i].empid : i \in {j \in DOMAIN n.attempts :
                                              n.attempts[j].channel = "sms"}}

\* the registry as the claims speak of it
ActiveSubscriber(id) == users[id]["isActive"] = TRUE
Administrator(id) == users[id]["isAdmin"] = TRUE
HasEmail(id) == users[id]["email"] # ""
HasPhone(id) == users[id]["phone"] # ""
Stored(id) == id \in DOMAIN notification_settings
SubscribedLevels(id) ==
    IF Stored(id) THEN notification_settings[id]["alertLevels"]
    ELSE {"MEDIUM", "HIGH", "CRITICAL"}
EmailEnabled(id) == IF Stored(id) THEN notification_settings[id]["emailNotifications"] ELSE TRUE
SmsEnabled(id) == IF Stored(id) THEN notification_settings[id]["smsNotifications"] ELSE FALSE
\* the first administrator of the registry, if any
Designated(id) ==
    /\ Administrator(id)
    /\ \A i \in DOMAIN UserOrder :
          UserOrder[i] = id => \A j \in 1 .. i - 1 : ~Administrator(UserOrder[j])

\* C15 as stated: with overrideAll = true the subscribers an email is sent to
\* are exactly the active subscribers having a non-empty email address.
C15_OverrideAllEmailActiveOnly ==
    (Dispatched /\ Dispatch.forceAll)
    => EmailedTo(Dispatch) = {id \in UserIds : ActiveSubscriber(id) /\ HasEmail(id)}

\* C15 as amended: with overrideAll = true the subscribers an email is sent to
\* are exactly the active subscribers having a non-empty email address,
\* together with the designated administrator if it has a non-empty email
\* address, independent of subscribed severities and email preference.
C15_OverrideAllEmail ==
    (Dispatched /\ Dispatch.forceAll)
    => EmailedTo(Dispatch) =
          {id \in UserIds : HasEmail(id) /\ (ActiveSubscriber(id) \/ Designated(id))}

C15_Witness ==
    /\ Dispatched /\ Dispatch.forceAll
    /\ Dispatch.alertLevel = "LOW"
    /\ \E id \in EmailedTo(Dispatch) :
          /\ ActiveSubscriber(id) /\ ~Administrator(id)
          /\ ~EmailEnabled(id) /\ "LOW" \notin SubscribedLevels(id)
    /\ \E id \in EmailedTo(Dispatch) : ~ActiveSubscriber(id) /\ Designated(id)
    /\ \E id \in UserIds : ActiveSubscriber(id) /\ ~HasEmail(id)

\* C16: with overrideAll = true an SMS is sent to an active subscriber,
\* administrator or not, if and only if the subscriber's stored SMS preference
\* is enabled and a phone number is present.
C16_OverrideAllSmsFollowsPreference ==
    (Dispatched /\ Dispatch.forceAll)
    => \A id \in UserIds :
          ActiveSubscriber(id)
          => (id \in SmsTo(Dispatch) <=> (Stored(id) /\ SmsEnabled(id) /\ HasPhone(id)))

\* C17: with overrideAll = false an active subscriber is notified only if it
\* is an administrator or the severity is among its subscribed severities
\* (MEDIUM, HIGH, CRITICAL when nothing is stored); then an email is sent iff
\* (administrator or email preference enabled) and an email address is
\* present, and an SMS iff (administrator or SMS preference enabled) and a
\* phone number is present, each channel decided on its own.
C17_SettingsFanOut ==
    (Dispatched /\ ~Dispatch.forceAll)
    => \A id \in UserIds :
          ActiveSubscriber(id)
          => LET included == Administrator(id)
                             \/ Dispatch.alertLevel \in SubscribedLevels(id)
             IN  /\ id \in EmailedTo(Dispatch)
                    <=> (included /\ (Administrator(id) \/ EmailEnabled(id))
                         /\ HasEmail(id))
                 /\ id \in SmsTo(Dispatch)
                    <=> (included /\ (Administrator(id) \/ SmsEnabled(id))
                         /\ HasPhone(id))

C17_Witness ==
    /\ Dispatched /\ ~Dispatch.forceAll
    /\ \E id \in SmsTo(Dispatch) \ EmailedTo(Dispatch) :
          ActiveSubscriber(id) /\ ~Administrator(id) /\ HasEmail(id)
    /\ \E id \in UserIds \ (SmsTo(Dispatch) \cup EmailedTo(Dispatch)) :
          /\ ActiveSubscriber(id) /\ HasEmail(id) /\ HasPhone(id)
          /\ Stored(id) /\ Dispatch.alertLevel \notin SubscribedLevels(id)
    /\ \E id \in EmailedTo(Dispatch) : ActiveSubscriber(id) /\ ~Stored(id)

\* C18: every dispatch sends the alert email to the designated administrator
\* that has a non-empty email address, also when the administrator is not
\* among the active subscribers.
C18_AdministratorAlwaysEmailed ==
    Dispatched
    => \A id \in UserIds : (Designated(id) /\ HasEmail(id)) => id \in EmailedTo(Dispatch)

C18_Witness ==
    /\ Dispatched
    /\ last.op = "insert"
    /\ \E id \in EmailedTo(Dispatch) : Designated(id) /\ ~ActiveSubscriber(id)
    /\ \E id \in EmailedTo(Dispatch) : ActiveSubscriber(id) /\ ~Administrator(id)

\* the recipient and channel of each send, in order
RECURSIVE Targets(_)
Targets(a) ==
    IF a = <<>> THEN <<>>
    ELSE <<[channel |-> Head(a).channel, empid |-> Head(a).empid, to |-> Head(a).to]>>
         \o Targets(Tail(a))

\* C19: when the sends to one recipient fail, every recipient and channel
\* eligible for the alert is still attempted (the same sends are made as when
\* nothing fails), and no exception leaves the dispatch.
C19_FailureIsolated ==
    Dispatched
    => /\ Targets(Dispatch.attempts) =
             Targets(sendAlertNotifications(Dispatch.alertLevel, Dispatch.message,
                         Dispatch.block, Dispatch.plant, Dispatch.area,
                         Dispatch.forceAll, "none").attempts)
       /\ Dispatch.threw = FALSE

C19_Witness ==
    /\ Dispatched
    /\ last.op = "notify" /\ last.req.down = "u1"
    /\ Len(Dispatch.attempts) >= 3
    /\ Dispatch.attempts[1].empid = "u1" /\ ~Dispatch.attempts[1].delivered
    /\ \E i \in DOMAIN Dispatch.attempts :
          Dispatch.attempts[i].empid = "u3" /\ Dispatch.attempts[i].delivered

\* C20: the dispatch's count of sent messages equals the number of sends
\* that succeeded (3 recipients of which the second always fails: 2).
C20_SentCountsSuccesses ==
    Dispatched
    => Dispatch.totalRecipients =
          Cardinality({i \in DOMAIN Dispatch.attempts : Dispatch.attempts[i].delivered})

\* the alert events among the events the last request emitted
AlertEvents(l) == {i \in DOMAIN l.emitted : l.emitted[i].event = "alert"}

\* C21: the live alert event of a violation or of a manual alert is broadcast
\* also when persisting the alert record fails.
C21_BroadcastDespitePersistFailure ==
    /\ (/\ last.op \in {"insert", "ingest"}
        /\ last.fault = "alertWrite"
        /\ last.violations # <<>>)
       => AlertEvents(last) # {}
    /\ (/\ last.op = "manual"
        /\ last.fault = "alertWrite"
        /\ ValidManual(last.req))
       => AlertEvents(last) # {}

\* C22: once the raw reading write has succeeded, a failure of the threshold
\* lookup, of the alert record's persistence or of the notification dispatch
\* neither rolls back the stored reading nor makes the submission rejected or
\* reported as failed.
C22_ReadingKeptDespiteFailures ==
    [][(/\ last'.op = "insert"
        /\ last'.fault \in {"thresholdQuery", "alertWrite"} \cup UserIds
        /\ ~InsertMissingField(last'.req)
        /\ ~InsertNotNumeric(last'.req))
       => /\ last'.status = 200
          /\ Len(readings') = Len(readings) + 1
          /\ SubSeq(readings', 1, Len(readings)) = readings
          /\ last'.id = Len(readings')
          /\ readings'[last'.id].near = last'.req.near
          /\ readings'[last'.id].onem = last'.req.onem]_vars

C22_Witness ==
    /\ last.op = "insert"
    /\ last.fault = "alertWrite"
    /\ last.violations # <<>>
    /\ last.status = 200
    /\ Len(readings) = 1
    /\ DOMAIN alertHistory = {}

\* C23: the answer to a reading submission carries, with the success of the
\* raw write, a boolean that is true exactly when the evaluation of that
\* reading detected a violation.
C23_ResponseReportsViolation ==
    (last.op = "insert" /\ last.status = 200)
    => /\ last.body["success"] = TRUE
       /\ "thresholdViolated" \in DOMAIN last.body
       /\ last.body["thresholdViolated"] = (last.violations # <<>>)


\* the emails one dispatch sent to subscriber id
EmailsTo(call, id) ==
    {i \in DOMAIN call.attempts :
        call.attempts[i].channel = "email" /\ call.attempts[i].empid = id}

\* the sends of one dispatch to subscribers other than id, as channel and
\* address
SendsToOthers(call, id) ==
    {<<call.attempts[i].channel, call.attempts[i].to>> :
        i \in {j \in DOMAIN call.attempts :
                  call.attempts[j].empid # id /\ call.attempts[j].channel # "settings"}}

\* the same dispatch with nothing going wrong
FaultFree(l) ==
    sendAlertNotifications(l.req.alertLevel, "drill", "B1", "P1", "A1",
                           l.req.forceAll, "none")

\* C24: the dispatch completes although the send to one recipient never
\* returns, and every send to the other recipients is still made
C24_DispatchCompletesDespiteHang ==
    \A id \in UserIds :
        (last.op = "notify" /\ last.req.down = HangOf[id])
        => /\ last.notifications[1].completed
           /\ SendsToOthers(FaultFree(last), id) \subseteq SendsToOthers(last.notifications[1], id)

\* C28: one dispatch sends no subscriber more than one email
C28_AtMostOneEmail ==
    (last.op = "notify" /\ last.req.down = "none")
    => \A id \in UserIds : Cardinality(EmailsTo(last.notifications[1], id)) <= 1

\* C29: without overrideAll, when the read of one subscriber's settings
\* fails, every send to the other subscribers and the administrator's
\* re-check email are still made
C29_SettingsFailureIsolated ==
    \A id \in UserIds :
        (/\ last.op = "notify" /\ ~last.req.forceAll
         /\ last.req.down = UnreadableOf[id]
         /\ \A u \in UserIds : ~Falsy(Str(users[u], "empid")))
        => SendsToOthers(sendAlertNotifications(last.req.alertLevel, "drill", "B1",
                             "P1", "A1", FALSE, "none"), id)
           \subseteq SendsToOthers(last.notifications[1], id)

\* the attributes acknowledge writes
AckFields == {"acknowledged", "acknowledged_by", "acknowledged_at"}

\* C27: no operation removes an alert record; an operation other than
\* acknowledge leaves every existing record as it was; acknowledge changes
\* no attribute of a record other than acknowledged, acknowledged_by and
\* acknowledged_at
C27_AlertRecordsAppendOnly ==
    [][/\ DOMAIN alertHistory \subseteq DOMAIN alertHistory'
       /\ \A id \in DOMAIN alertHistory :
             IF last'.op = "acknowledge"
             THEN /\ DOMAIN alertHistory[id] \subseteq DOMAIN alertHistory'[id]
                  /\ DOMAIN alertHistory'[id] \subseteq DOMAIN alertHistory[id] \cup AckFields
                  /\ \A k \in DOMAIN alertHistory[id] \ AckFields :
                        alertHistory'[id][k] = alertHistory[id][k]
             ELSE alertHistory'[id] = alertHistory[id]]_vars

\* an existing record acknowledged while a second record is in the store
C27_Witness ==
    /\ last.op = "acknowledge" /\ last.status = 200
    /\ last.req.id \in DOMAIN alertHistory
    /\ Cardinality(DOMAIN alertHistory) >= 2
    /\ \E id \in DOMAIN alertHistory : id # last.req.id /\ id # NoAlertId
    /\ LET a == alertHistory[last.req.id]
       IN  /\ "alert_level" \in DOMAIN a
           /\ a["acknowledged"] = TRUE
           /\ a["acknowledged_by"] = last.req.acknowledged_by

\* the positions of a step in the report of a request
StepsAt(l, names) == {i \in DOMAIN l.steps : l.steps[i] \in names}

\* every step named in `first` comes before every step named in `then`
Before(l, first, then) ==
    \A i \in StepsAt(l, first), j \in StepsAt(l, then) : i < j

\* C26: in one ingestion or manual-alert pipeline the reading is evaluated
\* before the alert record is persisted, the record is persisted before the
\* recipients are resolved and before any send, no send or alert broadcast
\* happens without the record persisted before it, and for a reading
\* submission all of these come before the response
C26_PipelineOrder ==
    (last.op \in {"insert", "ingest", "manual"})
    => /\ Before(last, {"evaluate"}, {"persist"})
       /\ Before(last, {"persist"}, {"recipients", "send", "emitAlert"})
       /\ Before(last, {"recipients"}, {"send", "emitAlert"})
       /\ StepsAt(last, {"recipients", "send", "emitAlert"}) # {}
          => StepsAt(last, {"persist"}) # {}
       /\ last.op = "insert"
          => Before(last, {"write", "evaluate", "persist", "recipients", "send",
                           "emitAlert"}, {"respond"})
       /\ (last.op = "insert" /\ last.status = 200)
          => last.steps[Len(last.steps)] = "respond"

\* a reading submission that raised an alert, sent at least one message and
\* was then answered
C26_Witness ==
    /\ last.op = "insert" /\ last.status = 200
    /\ last.alertId # NoAlertId
    /\ StepsAt(last, {"send"}) # {}
    /\ StepsAt(last, {"emitAlert"}) # {}

\* the alert events among a sequence of events, each named by its type and
\* the moment it was emitted
Alerts(events) ==
    LET a == SelectSeq(events, LAMBDA e : e.event = "alert")
    IN  [i \in DOMAIN a |-> <<a[i].type, a[i].timestamp>>]

\* C25: a socket connected when an alert event is emitted receives it once,
\* whatever the other sockets do; a socket not connected at that moment
\* receives nothing, also in the step in which it connects (no replay)
C25_AtMostOnceNoReplay ==
    [][\A o \in ObserverIds :
          /\ o \notin connected => Alerts(inbox'[o]) = Alerts(inbox[o])
          /\ o \in connected
             => Alerts(inbox'[o])
                = Alerts(inbox[o]) \o (IF now' # now THEN Alerts(last'.emitted) ELSE <<>>)
          /\ \A i, j \in DOMAIN Alerts(inbox'[o]) :
                Alerts(inbox'[o])[i] = Alerts(inbox'[o])[j] => i = j]_vars

\* s1 received an alert and left, s2 connected afterwards and then received
\* a later alert only
C25_Witness ==
    /\ "s1" \notin connected /\ "s2" \in connected
    /\ Len(Alerts(inbox["s1"])) = 1
    /\ Len(Alerts(inbox["s2"])) = 1
    /\ Alerts(inbox["s1"])[1][2] < Alerts(inbox["s2"])[1][2]

\* C30: a reading leaves the offline queue only once the server accepted
\* it, and when the page comes back online every queued reading is put up
\* for submission
C30_OfflineQueueKept ==
    [][/\ \A r \in Queued(localStorage) :
             r \in Queued(localStorage') \/ r \in accepted'
       /\ (~online /\ online')
          => /\ Queued(localStorage) \subseteq Queued(offlineData)
             /\ localStorage # <<>> => syncAt' = 1]_vars

====
